---- MODULE Spec2Model ----
(***************************************************************************)
(* lolbaninfo: a chat-bot command that looks up a ban status over one HTTP *)
(* GET with bounded retries.  Two variants of the plugin are modelled:     *)
(*   "A"  src/src/index.ts      (transient-fault retry, no log buffer)     *)
(*   "B"  src/unnamed/part_000  (400/403 retry, in-memory logCache)        *)
(* An invocation of the command is one cooperative task; it yields only at *)
(* `await ctx.http.get` and at `await sleep`, so each action below is the  *)
(* synchronous code between two suspension points.                         *)
(***************************************************************************)
EXTENDS Integers, Sequences, FiniteSets, TLC

VARIABLES
    config,     \* the plugin configuration, fixed at load time
    logCache,   \* part_000:111, the module-level log buffer
    appended,   \* history: how many entries were ever pushed to logCache
    runs,       \* history: how many command dispatches were started
    world,      \* what the host and the remote API produce in this behaviour
    inv         \* per task slot: the locals of the running invocation

vars == <<config, logCache, appended, runs, world, inv>>

\* ------------------------------------------------------------- bounds
\* Command dispatches the host makes in one behaviour of Spec, of SpecLog,
\* of SpecConc and of SpecFair.
MaxRuns == 1
LogRuns == 3
ConcRuns == 2
FairRuns == 2

\* ------------------------------------------------- program constants
RetryTimesMin == 0
RetryTimesMax == 5
MaxLogCountMin == 20
\* `error.response?.status || '未知状态'`: the string that replaces a missing
\* status.  It is truthy and compares false against every number.
UnknownStatus == -1
\* An error without a response (error.response?.status is undefined).
NoStatus == 0
\* A body whose `code` field is undefined (a malformed body).
CodeUndefined == -1

Variants == {"A", "B"}
ReplyMode == {"mention", "quote", "normal"}
Digits == {"0", "1", "2", "3", "4", "5", "6", "7", "8", "9"}

\* ---------------------------------------------------- host-side inputs
Chars(n, c) == [i \in 1..n |-> c]

\* The positional argument the host hands to the action callback.
Args ==
    { [undef |-> FALSE, chars |-> s] :
        s \in { Chars(4, "1"), Chars(5, "1"), Chars(13, "9"), Chars(14, "1"),
                <<"1", "2", "3", "4", "a">>,
                <<"1", "2", "3", "4", "5", "\n">>,
                <<" ", "1", "2", "3", "4", "5">>,
                <<"-", "1", "2", "3", "4", "5">>,
                <<>> } }
    \cup { [undef |-> TRUE, chars |-> <<>>] }

\* String(qq): what the regular expression and the templates see.
ToStr(arg) ==
    IF arg.undef THEN <<"u", "n", "d", "e", "f", "i", "n", "e", "d">>
    ELSE arg.chars

\* Commands a chat user may type.
HostCommands == {"chafenghao", "chakanchahaorizhi"}
\* Commands `apply` registers with ctx.command.
RegisteredCommands == {"chafenghao"}

\* Bodies a resolved GET may carry (responseType json).
Bodies ==
    { [isNull |-> FALSE, code |-> 200, msg |-> m, banmsg |-> b] :
        m \in {"", "ok"}, b \in {"", "banned 30 days"} }
    \cup { [isNull |-> FALSE, code |-> c, msg |-> m, banmsg |-> ""] :
        c \in {400, 401, 403, 404, 429, 500, 502, 503, 504, 999, CodeUndefined},
        m \in {"", "ok"} }
    \cup { [isNull |-> TRUE, code |-> CodeUndefined, msg |-> "", banmsg |-> ""] }

\* Errors a rejected GET may carry.
Errors ==
    { [status |-> s, code |-> c, message |-> "request failed"] :
        s \in {NoStatus, 400, 403, 404, 499, 500, 503},
        c \in {"", "ECONNRESET", "ETIMEDOUT", "ECONNREFUSED"} }
    \cup { [status |-> NoStatus, code |-> "", message |-> ""] }

NoError == [status |-> NoStatus, code |-> "", message |-> "-"]
TypeError == [status |-> NoStatus, code |-> "", message |-> "TypeError"]
RetryExhausted == [status |-> NoStatus, code |-> "", message |-> "RetryExhausted"]
NoBody == [isNull |-> TRUE, code |-> CodeUndefined, msg |-> "-", banmsg |-> "-"]

\* ------------------------------------------------------ pure functions
\* Faulty pattern, for comparison: /^\d{5,13}/ without the `$`, which accepts
\* whatever starts with five digits.
isValidQQUnanchored(qq) ==
    LET s == ToStr(qq)
    IN  /\ Len(s) >= 5
        /\ \A i \in 1..5 : s[i] \in Digits

\* /^\d{5,13}$/.test(qq): no flags, so \d is [0-9] and $ is the end of input.
isValidQQ(qq) ==
    LET s == ToStr(qq)
    IN  /\ Len(s) >= 5
        /\ Len(s) <= 13
        /\ \A i \in 1..Len(s) : s[i] \in Digits

Session(p) == [userId |-> ToString(p), messageId |-> ToString(p)]

\* h.at(id).toString() and h.quote(id).toString()
At(id) == <<"<at id=", id, "/>">>
Quote(id) == <<"<quote id=", id, "/>">>

\* index.ts appends the literal '&#13;' after the mention, part_000 a "\n".
MentionBreak(variant) == IF variant = "A" THEN "&#13;" ELSE "\n"

formatReplyMessage(variant, session, message, replyMode) ==
    LET prefix ==
            IF replyMode = "quote" THEN Quote(session.messageId)
            ELSE IF replyMode = "mention"
                 THEN At(session.userId) \o <<MentionBreak(variant)>>
                 ELSE <<>>
    IN  prefix \o message

\* Faulty template, for comparison: `${result.status}`, a field the body
\* does not have.
CodeStrOfStatus(code) == "undefined"

\* `${result.code}` in a template
CodeStr(code) == IF code = CodeUndefined THEN "undefined" ELSE ToString(code)

\* result.msg || '无返回信息'
MsgOf(body) == IF body.msg = "" THEN "no message returned" ELSE body.msg
\* Faulty default, for comparison: `result.data.banmsg ?? ...`, which keeps
\* an empty banmsg.
BanInfoOfNullish(body) == body.banmsg

\* result.data?.banmsg || '无详细封禁信息'
BanInfoOf(body) == IF body.banmsg = "" THEN "no detail available" ELSE body.banmsg

\* Faulty switch, for comparison: only `case 200` is there, every other
\* code reaches `default`.
classifyAOnlyDefault(body, qq) ==
    IF body.code = 200
    THEN <<"OK query succeeded: ", MsgOf(body), "\n\n detail: ", BanInfoOf(body)>>
    ELSE <<"unknown response code [", CodeStr(body.code), "]: ", MsgOf(body)>>

\* The switch of index.ts: the message handed to formatReplyMessage.
classifyA(body, qq) ==
    LET msg == MsgOf(body)
    IN  CASE body.code = 200 ->
                <<"OK query succeeded: ", msg, "\n\n detail: ", BanInfoOf(body)>>
          [] body.code = 400 ->
                <<"query failed [400]: ", msg, " (parameter missing, check the configuration)">>
          [] body.code = 401 ->
                <<"API token invalid or unauthorized [401]: ", msg, " and update the configuration">>
          [] body.code = 403 ->
                <<"request rejected [403]: too frequent or IP restricted, retry later">>
          [] body.code = 404 ->
                <<"nothing found [404], QQ ">> \o ToStr(qq)
                    \o <<" may have no bound account or no ban record">>
          [] body.code = 429 ->
                <<"API free quota used up or membership expired, please recharge">>
          [] body.code = 500 ->
                <<"server internal error [500]: ", msg, " the fault is on the API server">>
          [] body.code \in {502, 503, 504} ->
                <<"service unavailable [", CodeStr(body.code), "]: ", msg,
                  " maintenance or overload, retry later">>
          [] OTHER ->
                <<"unknown response code [", CodeStr(body.code), "]: ", msg>>

\* The switch of part_000.
classifyB(body, qq) ==
    LET msg == MsgOf(body)
    IN  CASE body.code = 200 ->
                <<"OK query succeeded: ", msg, "\n detail: ", BanInfoOf(body)>>
          [] body.code = 400 ->
                <<"query failed [400]: ", msg, " (parameter missing, check the configuration)">>
          [] OTHER ->
                <<"query failed [", CodeStr(body.code), "]: ", msg>>

classify(variant, body, qq) ==
    IF variant = "A" THEN classifyA(body, qq) ELSE classifyB(body, qq)

\* The log kind part_000 appends for a classified body.
ResultLogKind(body) ==
    IF body.code = 200 THEN "result200"
    ELSE IF body.code = 400 THEN "result400" ELSE "resultOther"

\* The message of the catch block of the action callback.
\* error.message || '未知错误'
ErrMsgOf(error) == IF error.message = "" THEN "unknown error" ELSE error.message

catchMessage(variant, error) ==
    IF variant = "A"
    THEN <<"an error occurred during the query, check network, API address and token">>
    ELSE <<"API call failed: ", ErrMsgOf(error)>>

\* The message of the validation branch.
invalidMessage(variant, qq) ==
    <<"QQ number format error: ">> \o ToStr(qq) \o <<" (5-13 digits needed)">>

\* const status = error.response?.status || '未知状态'
StatusOf(error) ==
    IF error.status = NoStatus THEN UnknownStatus ELSE error.status

\* Faulty thresholds, for comparison: `status >= 400`, and `status > 500`.
AtLeast400(status) == status # UnknownStatus /\ status >= 400
Above500(status) == status # UnknownStatus /\ status > 500

\* status >= 500 with a status that may be the string: NaN compares false.
AtLeast500(status) == status # UnknownStatus /\ status >= 500
\* !status
Not(status) == status = 0

ResetTimeoutCodes == {"ECONNRESET", "ETIMEDOUT"}

\* index.ts:152
isRetryableA(status, error) ==
    \/ AtLeast500(status)
    \/ Not(status)
    \/ error.code \in ResetTimeoutCodes

\* Faulty policy, for comparison: every 4xx status is retried.
isRetryableAny4xx(status, error) == status >= 400 /\ status < 500

\* part_000:181, [400, 403].includes(status)
isRetryableB(status, error) == status \in {400, 403}

isRetryable(variant, status, error) ==
    IF variant = "A" THEN isRetryableA(status, error)
    ELSE isRetryableB(status, error)

\* while (attempt <= retryTimes)
LoopGuard(attempt, retryTimes) == attempt <= retryTimes

\* Faulty stop tests, for comparison: `attempt > retryTimes + 1`, and no
\* test of the attempt counter at all.
StopRetryingLate(retryable, attempt, retryTimes) ==
    ~retryable \/ attempt > retryTimes + 1
StopRetryingNoBound(retryable, attempt, retryTimes) == ~retryable

\* if (!isRetryable || attempt > retryTimes) throw error
StopRetrying(retryable, attempt, retryTimes) ==
    ~retryable \/ attempt > retryTimes

\* ---------------------------------------------------------- log buffer
LogEntry(n, p, kind, k) == [seq |-> n, owner |-> p, kind |-> kind, attempt |-> k]

\* Faulty trim, for comparison: it starts one entry too late
\* (length > maxCount + 1).
addLogAndCleanLate(log, entry, maxCount) ==
    LET pushed == Append(log, entry)
    IN  IF Len(pushed) > maxCount + 1
        THEN SubSeq(pushed, Len(pushed) - maxCount + 1, Len(pushed))
        ELSE pushed

\* Faulty trim, for comparison: splice(0, maxCount) removes maxCount entries
\* instead of deleteCount.
addLogAndCleanAll(log, entry, maxCount) ==
    LET pushed == Append(log, entry)
    IN  IF Len(pushed) > maxCount
        THEN SubSeq(pushed, maxCount + 1, Len(pushed))
        ELSE pushed

\* Faulty trim, for comparison: it removes the newest entries (splice at
\* the end).
addLogAndCleanBack(log, entry, maxCount) ==
    LET pushed == Append(log, entry)
    IN  IF Len(pushed) > maxCount
        THEN SubSeq(pushed, 1, maxCount)
        ELSE pushed

\* part_000:119-133, on the buffer as a value: push, then splice(0, deleteCount).
addLogAndClean(log, entry, maxCount) ==
    LET pushed == Append(log, entry)
    IN  IF Len(pushed) > maxCount
        THEN LET deleteCount == Len(pushed) - maxCount
             IN  SubSeq(pushed, deleteCount + 1, Len(pushed))
        ELSE pushed

\* One addLogAndClean call of invocation p; index.ts has no buffer.
\* st = [log, n]: the buffer and the number of pushes so far.
PushLog(st, p, kind, k) ==
    IF config.variant = "B"
    THEN [log |-> addLogAndClean(st.log, LogEntry(st.n + 1, p, kind, k),
                                 config.maxLogCount),
          n |-> st.n + 1]
    ELSE st

\* ------------------------------------------------ the documented policy
\* The retry policy as the design states it (used only by history fields).
PolicyRetryable(variant, error) ==
    IF variant = "A"
    THEN \/ error.status >= 500
         \/ error.status = NoStatus
         \/ error.code \in ResetTimeoutCodes
    ELSE error.status \in {400, 403}

\* ---------------------------------------------------------- invocations
\* The locals of one dispatch.  trace lists the suspension points passed:
\* "G" a GET issued, "W" a sleep(retryDelay) started.  net is the request on
\* the wire: pending, or how the last one ended and with which body.  allPolicy and all5xx
\* are history: whether every failed attempt so far was retryable under the
\* documented policy, and whether every one carried a status >= 500.
\* events lists what the invocation handed to the logger, in call order,
\* and ends with "reply" once the callback has returned its reply.
Idle ==
    [pc |-> "idle", cmd |-> "", qq |-> [undef |-> TRUE, chars |-> <<>>],
     attempt |-> 0, trace |-> <<>>, error |-> NoError, body |-> NoBody,
     exit |-> "none", outcome |-> "none", reply |-> <<>>,
     net |-> [state |-> "none", body |-> NoBody],
     allPolicy |-> TRUE, all5xx |-> TRUE, events |-> <<>>]

\* Faulty catch block of requestWithRetry, for comparison: the failure log
\* is built but never handed to the logger.
LoggerCallsNoFail(variant, kind) == kind # "fail"

\* Whether the code has a logger call for this kind of event: index.ts
\* logs nothing between the decision to retry and the sleep.
LoggerCalls(variant, kind) == variant = "B" \/ kind # "retry"

\* One logger.info / warn / error / success call of an invocation.
Logger(r, kind) ==
    IF LoggerCalls(config.variant, kind)
    THEN [r EXCEPT !.events = Append(@, kind)]
    ELSE r

Count(seq, x) == Cardinality({i \in 1..Len(seq) : seq[i] = x})
Gets(r) == Count(r.trace, "G")
Waits(r) == Count(r.trace, "W")

\* Faulty catch block, for comparison: it logs and rethrows.
callbackCatchRethrows(variant, session, error, replyMode) ==
    [outcome |-> "threw", reply |-> <<>>]

\* The catch block of the action callback: log, then return the reply.
callbackCatch(variant, session, error, replyMode) ==
    [outcome |-> "replied",
     reply |-> formatReplyMessage(variant, session,
                                  catchMessage(variant, error), replyMode)]

\* Whether the statements after `await requestWithRetry` throw inside the
\* try block: result.msg on a null body is a TypeError.
ThrowsOnResult(body) == body.isNull

\* An error reaches the catch block of the callback; exit tells how
\* requestWithRetry ended.
Catch(p, r, st, error, exit) ==
    LET c == callbackCatch(config.variant, Session(p), error, config.replyMode)
    IN  [rec |-> [Logger(r, "error") EXCEPT
                    !.pc = "done", !.error = error, !.exit = exit,
                    !.outcome = c.outcome, !.reply = c.reply,
                    !.events = Append(@, "reply")],
         st |-> PushLog(st, p, "error", r.attempt)]

\* The top of the while loop: the guard, the request log and the GET.  The
\* catch variable of the previous iteration is out of scope here.
LoopTop(p, r, st) ==
    IF LoopGuard(r.attempt, config.retryTimes)
    THEN [rec |-> [Logger(r, "request") EXCEPT
                    !.pc = "http", !.trace = Append(@, "G"),
                    !.error = NoError,
                    !.net = [state |-> "pending", body |-> NoBody]],
          st |-> PushLog(st, p, "request", r.attempt + 1)]
    ELSE Catch(p, r, st, RetryExhausted, "exhausted")

\* The GET rejected: the catch block of requestWithRetry.
OnRejected(p, r, st, error) ==
    LET attempt == r.attempt + 1
        status == StatusOf(error)
        st1 == PushLog(st, p, "fail", attempt)
        r1 == [Logger(r, "fail") EXCEPT !.attempt = attempt, !.error = error,
                        !.allPolicy = @ /\ PolicyRetryable(config.variant, error),
                        !.all5xx = @ /\ error.status >= 500]
    IN  IF StopRetrying(isRetryable(config.variant, status, error),
                        attempt, config.retryTimes)
        THEN Catch(p, Logger(r1, "end"), PushLog(st1, p, "end", attempt),
                   error, "rethrew")
        ELSE [rec |-> [Logger(r1, "retry") EXCEPT
                        !.pc = "sleep", !.trace = Append(@, "W")],
              st |-> PushLog(st1, p, "retry", attempt)]

\* The callback after `await requestWithRetry`: the switch over result.code.
Classified(p, r, st, body) ==
    IF ThrowsOnResult(body)
    THEN Catch(p, r, st, TypeError, "returned")
    ELSE [rec |-> [Logger(r, ResultLogKind(body)) EXCEPT
                    !.pc = "done", !.exit = "returned",
                    !.outcome = "replied",
                    !.reply = formatReplyMessage(config.variant, Session(p),
                                classify(config.variant, body, r.qq),
                                config.replyMode),
                    !.events = Append(@, "reply")],
          st |-> PushLog(st, p, ResultLogKind(body), r.attempt + 1)]

\* Faulty wrapper, for comparison: it validates the body's code after a
\* successful GET and treats a 5xx code as a failed attempt.
OnResolvedRechecked(p, r, st, body) ==
    IF body.code >= 500 /\ body.code < 600
    THEN OnRejected(p, r, st, [status |-> body.code, code |-> "",
                               message |-> "request failed"])
    ELSE Classified(p, [Logger(r, "success") EXCEPT !.body = body],
                    PushLog(st, p, "success", r.attempt + 1), body)

\* The GET resolved: the success log, return response, then the callback.
OnResolved(p, r, st, body) ==
    Classified(p, [Logger(r, "success") EXCEPT !.body = body],
               PushLog(st, p, "success", r.attempt + 1), body)

\* Faulty callback, for comparison: it calls requestWithRetry without
\* validating the argument.
OnInvokeUnchecked(p, cmd, qq, st) ==
    LoopTop(p, [Idle EXCEPT !.cmd = cmd, !.qq = qq], st)

\* The action callback up to its first suspension point.
OnInvoke(p, cmd, qq, st) ==
    LET r == [Idle EXCEPT !.cmd = cmd, !.qq = qq]
    IN  IF cmd \notin RegisteredCommands
        THEN [rec |-> [r EXCEPT !.pc = "done", !.outcome = "unhandled"], st |-> st]
        ELSE IF ~isValidQQ(qq)
        THEN [rec |-> [Logger(r, "invalid") EXCEPT
                        !.pc = "done", !.outcome = "replied",
                        !.reply = formatReplyMessage(config.variant, Session(p),
                                    <<"X ">> \o invalidMessage(config.variant, qq),
                                    config.replyMode),
                        !.events = Append(@, "reply")],
              st |-> PushLog(st, p, "invalid", 0)]
        ELSE LoopTop(p, r, st)

Commit(p, res) ==
    /\ inv' = [inv EXCEPT ![p] = res.rec]
    /\ logCache' = res.st.log
    /\ appended' = res.st.n

Now == [log |-> logCache, n |-> appended]

\* ------------------------------------------------- repertoires of inputs
\* world.inputs names what the host and the remote API produce: "all" is
\* every input above, "few" and "one" are reduced repertoires for the
\* behaviours that fill the buffer.
FewArgs == {[undef |-> FALSE, chars |-> Chars(5, "1")], [undef |-> TRUE, chars |-> <<>>]}
FewBodies == {b \in Bodies : b.code \in {200, 999} /\ b.msg = "ok" /\ b.banmsg = ""}
FewErrors == {e \in Errors : e.status \in {400, 500} /\ e.code = "" /\ e.message # ""}
OneArg == {a \in FewArgs : ~a.undef}
OneBody == {b \in FewBodies : b.code = 200}
OneError == {e \in FewErrors : e.status = 400}

CommandsOf(w) == IF w.inputs = "all" THEN HostCommands ELSE {"chafenghao"}
ArgsOf(w) ==
    IF w.inputs = "all" THEN Args ELSE IF w.inputs = "few" THEN FewArgs ELSE OneArg
BodiesOf(w) ==
    IF w.inputs = "all" THEN Bodies ELSE IF w.inputs = "few" THEN FewBodies ELSE OneBody
ErrorsOf(w) ==
    IF w.inputs = "all" THEN Errors ELSE IF w.inputs = "few" THEN FewErrors ELSE OneError

\* --------------------------------------------------------------- actions
\* The host dispatches a command typed by a user.
Invoke(p) ==
    /\ inv[p].pc \in {"idle", "done"}
    /\ runs < world.dispatches
    /\ \E cmd \in CommandsOf(world), qq \in ArgsOf(world) :
          Commit(p, OnInvoke(p, cmd, qq, Now))
    /\ runs' = runs + 1
    /\ UNCHANGED <<config, world>>

\* ctx.http.get resolves with a body.
Resolve(p) ==
    /\ inv[p].pc = "http"
    /\ \E body \in BodiesOf(world) :
          Commit(p, OnResolved(p, [inv[p] EXCEPT !.net = [state |-> "resolved",
                                                          body |-> body]],
                               Now, body))
    /\ UNCHANGED <<config, runs, world>>

\* ctx.http.get rejects with an error.
Reject(p) ==
    /\ inv[p].pc = "http"
    /\ \E error \in ErrorsOf(world) :
          Commit(p, OnRejected(p, [inv[p] EXCEPT !.net = [state |-> "rejected",
                                                          body |-> NoBody]],
                               Now, error))
    /\ UNCHANGED <<config, runs, world>>

\* sleep(retryDelay) is over: back to the top of the loop.
Wake(p) ==
    /\ inv[p].pc = "sleep"
    /\ Commit(p, LoopTop(p, inv[p], Now))
    /\ UNCHANGED <<config, runs, world>>

Configs ==
    [variant : Variants, retryTimes : RetryTimesMin..RetryTimesMax,
     maxLogCount : {MaxLogCountMin}, replyMode : ReplyMode]

\* One task slot, every configuration, every input.
Init ==
    /\ config \in Configs
    /\ logCache = <<>>
    /\ appended = 0
    /\ runs = 0
    /\ world = [inputs |-> "all", dispatches |-> MaxRuns]
    /\ inv = [p \in {1} |-> Idle]

\* One task slot on the log-buffer variant with every retryTimes, dispatched
\* several times in a row so that the buffer overflows; few inputs.
InitLog ==
    /\ config \in {c \in Configs : c.variant = "B" /\ c.replyMode = "normal"}
    /\ logCache = <<>>
    /\ appended = 0
    /\ runs = 0
    /\ world = [inputs |-> "few", dispatches |-> LogRuns]
    /\ inv = [p \in {1} |-> Idle]

\* Two task slots interleaved at their suspension points, on the log-buffer
\* variant, with enough retries for two invocations to overflow the buffer
\* and one input of each kind.
ConcRetries == {3}

InitConc ==
    /\ config \in {c \in Configs : c.variant = "B" /\ c.retryTimes \in ConcRetries
                                    /\ c.replyMode = "normal"}
    /\ logCache = <<>>
    /\ appended = 0
    /\ runs = 0
    /\ world = [inputs |-> "one", dispatches |-> ConcRuns]
    /\ inv = [p \in {1, 2} |-> Idle]

Dispatch == \E p \in DOMAIN inv : Invoke(p)
HttpResolved == \E p \in DOMAIN inv : Resolve(p)
HttpRejected == \E p \in DOMAIN inv : Reject(p)
SleepOver == \E p \in DOMAIN inv : Wake(p)

Next == Dispatch \/ HttpResolved \/ HttpRejected \/ SleepOver

Spec == Init /\ [][Next]_vars

SpecLog == InitLog /\ [][Next]_vars

SpecConc == InitConc /\ [][Next]_vars

\* Two task slots interleaved at their suspension points, on either source
\* file, with few retries and few inputs; every GET that was issued is
\* eventually answered and every sleep that was started eventually ends.
FairRetries == {0, 1}
FairSlots == {1, 2}

InitFair ==
    /\ config \in {c \in Configs : c.retryTimes \in FairRetries
                                    /\ c.replyMode = "normal"}
    /\ logCache = <<>>
    /\ appended = 0
    /\ runs = 0
    /\ world = [inputs |-> "few", dispatches |-> FairRuns]
    /\ inv = [p \in FairSlots |-> Idle]

Fairness ==
    \A p \in FairSlots :
        /\ WF_vars(Resolve(p) \/ Reject(p))
        /\ WF_vars(Wake(p))

SpecFair == InitFair /\ [][Next]_vars /\ Fairness

\* ================================================================ claims
Slots == DOMAIN inv
Last(seq) == seq[Len(seq)]
\* G W G W ... : a wait between each pair of consecutive GETs, and only there.
Alternating(trace) ==
    \A i \in 1..Len(trace) : trace[i] = IF i % 2 = 1 THEN "G" ELSE "W"
FailedGet(r) == r.pc = "sleep" \/ r.exit = "rethrew"

\* C1: the query command never throws to its caller: whatever the argument
\* and whatever the GETs answer, a finished invocation has returned a
\* non-empty reply, and no invocation is ever in a state where an error
\* escaped the callback.
C1_NeverThrows ==
    \A p \in Slots :
        inv[p].cmd = "chafenghao" =>
            /\ inv[p].outcome # "threw"
            /\ inv[p].pc = "done" =>
                  inv[p].outcome = "replied" /\ Len(inv[p].reply) > 0

\* A null body made the callback throw inside its try block, and the
\* invocation ended with a reply.
C1_Witness ==
    \E p \in Slots :
        /\ inv[p].pc = "done" /\ inv[p].outcome = "replied"
        /\ inv[p].error = TypeError /\ inv[p].net.body.isNull
        /\ inv[p].net.state = "resolved"

\* C2 (as claimed): when every attempt failed with a failure the policy of
\* the variant calls retryable and requestWithRetry propagated the failure,
\* it made exactly retryTimes + 1 GETs and retryTimes waits, one wait
\* between consecutive GETs and none after the last.
C2_Exhaustion ==
    \A p \in Slots :
        (inv[p].exit = "rethrew" /\ inv[p].allPolicy) =>
            /\ Gets(inv[p]) = config.retryTimes + 1
            /\ Waits(inv[p]) = config.retryTimes
            /\ Alternating(inv[p].trace)
            /\ Last(inv[p].trace) = "G"

\* C3 (as claimed): under policy A a failed attempt whose error has no HTTP
\* status is propagated only when no attempt remains.
C3_NoStatusRetried ==
    \A p \in Slots :
        (config.variant = "A" /\ inv[p].exit = "rethrew"
            /\ inv[p].error.status = NoStatus) =>
            inv[p].attempt > config.retryTimes

\* C4 (as claimed): under policy A a failed attempt with a 4xx status is
\* never followed by a wait, whatever else the error carries.
C4_Never4xxRetried ==
    \A p \in Slots :
        (config.variant = "A" /\ FailedGet(inv[p])
            /\ inv[p].error.status \in 400..499) =>
            inv[p].pc # "sleep"

\* C4 (amended): under policy A a failed attempt with a 4xx status whose
\* error code is neither ECONNRESET nor ETIMEDOUT is propagated at once: the
\* failed GET is the last suspension point, with no wait after it.
C4_Amended ==
    \A p \in Slots :
        (config.variant = "A" /\ FailedGet(inv[p])
            /\ inv[p].error.status \in 400..499
            /\ inv[p].error.code \notin ResetTimeoutCodes) =>
            /\ inv[p].pc = "done" /\ inv[p].exit = "rethrew"
            /\ Last(inv[p].trace) = "G"
            /\ Gets(inv[p]) = inv[p].attempt
            /\ Waits(inv[p]) = inv[p].attempt - 1

\* A 404 with attempts remaining was propagated.
C4_Witness ==
    \E p \in Slots :
        /\ config.variant = "A" /\ inv[p].exit = "rethrew"
        /\ inv[p].error.status = 404 /\ inv[p].error.code = "ECONNREFUSED"
        /\ inv[p].attempt <= config.retryTimes

\* C5: under policy A, while every failed attempt carried a status >= 500
\* the wrapper gives up only when attempts are exhausted, and a success at
\* attempt k <= retryTimes + 1 returns that body after exactly k GETs and
\* k - 1 waits, one between consecutive GETs.
C5_RetryThenSuccess ==
    \A p \in Slots :
        (config.variant = "A" /\ inv[p].all5xx) =>
            /\ inv[p].exit = "rethrew" => inv[p].attempt = config.retryTimes + 1
            /\ inv[p].exit = "returned" =>
                  /\ inv[p].attempt <= config.retryTimes
                  /\ Gets(inv[p]) = inv[p].attempt + 1
                  /\ Waits(inv[p]) = inv[p].attempt
                  /\ Alternating(inv[p].trace)
                  /\ inv[p].body = inv[p].net.body

\* One 5xx failure, then a success, with retryTimes = 2: one wait.
C5_Witness ==
    \E p \in Slots :
        /\ config.variant = "A" /\ config.retryTimes = 2
        /\ inv[p].all5xx /\ inv[p].attempt = 1
        /\ inv[p].exit = "returned" /\ inv[p].body.code = 200
        /\ Waits(inv[p]) = 1

\* C6: under policy B a failed attempt is followed by a wait exactly when
\* its status is 400 or 403 and attempts remain; otherwise the error is
\* propagated with the failed GET as the last suspension point.
C6_PolicyB ==
    \A p \in Slots :
        (config.variant = "B" /\ FailedGet(inv[p])) =>
            LET again == /\ inv[p].error.status \in {400, 403}
                         /\ inv[p].attempt <= config.retryTimes
            IN  /\ again <=> inv[p].pc = "sleep"
                /\ ~again =>
                      /\ inv[p].pc = "done" /\ inv[p].exit = "rethrew"
                      /\ Last(inv[p].trace) = "G"
                      /\ Gets(inv[p]) = inv[p].attempt
                      /\ Waits(inv[p]) = inv[p].attempt - 1

\* A 404 and a failure without status were terminal with attempts
\* remaining, after a 403 had been retried.
C6_Witness ==
    \E p \in Slots :
        /\ config.variant = "B" /\ inv[p].exit = "rethrew"
        /\ inv[p].error.status \in {404, NoStatus}
        /\ inv[p].attempt = 2 /\ inv[p].attempt <= config.retryTimes
        /\ Waits(inv[p]) = 1

\* C7: a resolved GET ends the retry loop: in the state after it the
\* invocation is finished with that attempt's body, the GET is the last
\* suspension point, and from then on the invocation issues no request and
\* no wait (its record changes only by a new dispatch), whatever the code
\* of the body.
C7_SuccessEndsLoop ==
    [][\A p \in Slots :
          /\ inv'[p].net.state = "resolved" =>
                /\ inv'[p].pc = "done"
                /\ inv'[p].body = inv'[p].net.body
                /\ Last(inv'[p].trace) = "G"
                /\ Gets(inv'[p]) = inv'[p].attempt + 1
                /\ Waits(inv'[p]) = inv'[p].attempt
          /\ inv[p].net.state = "resolved" =>
                inv'[p] = inv[p] \/ runs' = runs + 1]_vars

\* A body with code 503 was returned while attempts remained.
C7_Witness ==
    \E p \in Slots :
        /\ inv[p].net.state = "resolved" /\ inv[p].net.body.code = 503
        /\ inv[p].pc = "done" /\ inv[p].outcome = "replied"
        /\ inv[p].attempt < config.retryTimes

\* C8: after every completed addLogAndClean, also with invocations
\* interleaved at their suspension points, the buffer holds at most
\* maxLogCount entries.
C8_BufferBound == Len(logCache) <= config.maxLogCount

\* The buffer is full after an eviction, the entries of the two slots are
\* interleaved in it, and an invocation is still suspended.
C8_Witness ==
    /\ appended > config.maxLogCount
    /\ Len(logCache) = config.maxLogCount
    /\ \E i, j, k \in 1..Len(logCache) :
          /\ i < j /\ j < k
          /\ logCache[i].owner = logCache[k].owner
          /\ logCache[i].owner # logCache[j].owner
    /\ \E p \in Slots : inv[p].pc \in {"http", "sleep"}

\* C9: after n appends to the empty buffer it holds the last
\* min(n, maxLogCount) entries appended, in append order.
C9_Fifo ==
    /\ Len(logCache) = IF appended <= config.maxLogCount
                       THEN appended ELSE config.maxLogCount
    /\ \A i \in 1..Len(logCache) :
          logCache[i].seq = appended - Len(logCache) + i

\* maxLogCount + 5 appends.
C9_Witness ==
    /\ appended = config.maxLogCount + 5
    /\ Len(logCache) = config.maxLogCount
    /\ logCache[1].seq = 6

\* The rendering the design gives for the log command.
ReadAllRendering(log) ==
    IF log = <<>> THEN <<"no log entries">>
    ELSE [i \in 1..Len(log) |-> ToString(log[i].seq)]

\* C10 (as claimed): in the log-buffer variant the command that views the
\* log answers with a rendering of the buffer, or the sentinel when empty.
C10_ViewLogReplies ==
    \A p \in Slots :
        (config.variant = "B" /\ inv[p].cmd = "chakanchahaorizhi"
            /\ inv[p].pc = "done") =>
            /\ inv[p].outcome = "replied"
            /\ inv[p].reply = ReadAllRendering(logCache)

\* ------------------------------------------------ replies of the classifier
Contains(seq, token) == \E i \in 1..Len(seq) : seq[i] = token

\* The codes the design lists besides 200, and the outcome class of each.
ListedCodes == {400, 401, 403, 404, 429, 500, 502, 503, 504}
OutcomeOf(code) ==
    CASE code = 400 -> "parameter error"
      [] code = 401 -> "invalid credential"
      [] code = 403 -> "rejected"
      [] code = 404 -> "not found"
      [] code = 429 -> "quota exhausted"
      [] code = 500 -> "server error"
      [] code \in {502, 503, 504} -> "upstream unavailable"
      [] OTHER -> "unknown code"

\* The text that opens the message of each outcome class.
OutcomeHead(class) ==
    CASE class = "parameter error" -> "query failed [400]: "
      [] class = "invalid credential" -> "API token invalid or unauthorized [401]: "
      [] class = "rejected" ->
            "request rejected [403]: too frequent or IP restricted, retry later"
      [] class = "not found" -> "nothing found [404], QQ "
      [] class = "quota exhausted" ->
            "API free quota used up or membership expired, please recharge"
      [] class = "server error" -> "server internal error [500]: "
      [] class = "upstream unavailable" -> "service unavailable ["
      [] OTHER -> "unknown response code ["
OutcomeClasses == {OutcomeOf(c) : c \in ListedCodes}

\* The invocation returned from the classifier with a body of a listed code.
ClassifiedListed(r) ==
    /\ r.pc = "done" /\ r.exit = "returned" /\ r.error = NoError
    /\ ~r.body.isNull /\ r.body.code \in ListedCodes

\* The reply carries the message of exactly one outcome class, that of the
\* body's code.
OwnOutcome(r) ==
    \A class \in OutcomeClasses :
        Contains(r.reply, OutcomeHead(class)) <=> class = OutcomeOf(r.body.code)

\* C11 (as claimed): every listed code is answered with the message of its
\* own outcome class (400 parameter error, 401 invalid credential, 403
\* rejected, 404 not found, 429 quota exhausted, 500 server error, 502, 503
\* and 504 upstream unavailable), and with the message of no other class.
C11_OwnOutcome ==
    \A p \in Slots : ClassifiedListed(inv[p]) => OwnOutcome(inv[p])

\* C11 (amended): index.ts answers every listed code with the message of its
\* own outcome class and of no other; part_000 does so for 400 only, and
\* answers every other listed code with the same generic failure message,
\* which carries the code and the msg.
C11_Amended ==
    \A p \in Slots :
        ClassifiedListed(inv[p]) =>
            IF config.variant = "A" \/ inv[p].body.code = 400
            THEN OwnOutcome(inv[p])
            ELSE /\ Contains(inv[p].reply, "query failed [")
                 /\ Contains(inv[p].reply, ToString(inv[p].body.code))
                 /\ Contains(inv[p].reply, MsgOf(inv[p].body))
                 /\ \A class \in OutcomeClasses :
                       ~Contains(inv[p].reply, OutcomeHead(class))

\* index.ts answered a 503 body with the upstream-unavailable message.
C11_Witness ==
    \E p \in Slots :
        /\ config.variant = "A" /\ ClassifiedListed(inv[p])
        /\ inv[p].body.code = 503
        /\ Contains(inv[p].reply, "service unavailable [")

\* The invocation returned from the classifier with a body whose code is
\* neither 200 nor a listed one.
ClassifiedUnlisted(r) ==
    /\ r.pc = "done" /\ r.exit = "returned" /\ r.error = NoError
    /\ ~r.body.isNull /\ r.body.code \notin ListedCodes \cup {200}

\* The code as the body carried it.
RawCode(code) == IF code = CodeUndefined THEN "undefined" ELSE ToString(code)

\* The text that opens the generic message of each source file.
GenericHead == IF config.variant = "A" THEN "unknown response code ["
               ELSE "query failed ["

\* C12: a body whose code is none of 200, 400, 401, 403, 404, 429, 500, 502,
\* 503, 504 is answered with the generic message, which carries the raw code
\* and the msg of the body; and whatever the code of the body, the command
\* ends with a reply.
C12_Totality ==
    \A p \in Slots :
        /\ ClassifiedUnlisted(inv[p]) =>
              /\ inv[p].reply[Len(inv[p].reply) - 3] = GenericHead
              /\ inv[p].reply[Len(inv[p].reply) - 2] = RawCode(inv[p].body.code)
              /\ inv[p].body.msg # "" =>
                    inv[p].reply[Len(inv[p].reply)] = inv[p].body.msg
              /\ \A class \in OutcomeClasses :
                    ~Contains(inv[p].reply, OutcomeHead(class))
        /\ (inv[p].pc = "done" /\ inv[p].exit = "returned") =>
              inv[p].outcome = "replied" /\ Len(inv[p].reply) > 0

\* A body with code 999 and msg "ok" was answered.
C12_Witness ==
    \E p \in Slots :
        /\ ClassifiedUnlisted(inv[p])
        /\ inv[p].body.code = 999 /\ inv[p].body.msg = "ok"
        /\ Contains(inv[p].reply, "999") /\ Contains(inv[p].reply, "ok")

\* The invocation returned from the classifier with a body of code 200.
ClassifiedSuccess(r) ==
    /\ r.pc = "done" /\ r.exit = "returned" /\ r.error = NoError
    /\ ~r.body.isNull /\ r.body.code = 200

\* C13: the reply to a body of code 200 carries the msg and, when
\* data.banmsg is present, the banmsg; when data or data.banmsg is absent
\* the reply carries the msg and the "no detail available" text instead.
C13_SuccessPath ==
    \A p \in Slots :
        ClassifiedSuccess(inv[p]) =>
            /\ Contains(inv[p].reply, "OK query succeeded: ")
            /\ inv[p].body.msg # "" => Contains(inv[p].reply, inv[p].body.msg)
            /\ Last(inv[p].reply) =
                  IF inv[p].body.banmsg # "" THEN inv[p].body.banmsg
                  ELSE "no detail available"

\* A 200 body with msg "ok" and without data was answered.
C13_Witness ==
    \E p \in Slots :
        /\ ClassifiedSuccess(inv[p])
        /\ inv[p].body.msg = "ok" /\ inv[p].body.banmsg = ""
        /\ Contains(inv[p].reply, "ok")
        /\ Contains(inv[p].reply, "no detail available")

\* The body the command callback hands to formatReplyMessage.
BodyOf(r) ==
    IF r.trace = <<>> THEN <<"X ">> \o invalidMessage(config.variant, r.qq)
    ELSE IF r.error # NoError THEN catchMessage(config.variant, r.error)
    ELSE classify(config.variant, r.body, r.qq)

\* C14 (as claimed): in mention mode the reply is the mention marker of the
\* recipient, immediately followed by a line break, immediately followed by
\* the body unchanged; in normal mode the reply is the body.
C14_MentionBreak ==
    \A p \in Slots :
        (inv[p].pc = "done" /\ inv[p].outcome = "replied") =>
            /\ config.replyMode = "mention" =>
                  inv[p].reply
                      = At(Session(p).userId) \o <<"\n">> \o BodyOf(inv[p])
            /\ config.replyMode = "normal" => inv[p].reply = BodyOf(inv[p])

\* The strings the design accepts as identifiers: 5 to 13 characters, each
\* one of the ten ASCII digits.
AsciiDigits == {"0", "1", "2", "3", "4", "5", "6", "7", "8", "9"}
FiveToThirteenDigits(s) ==
    /\ Len(s) \in 5..13
    /\ {s[i] : i \in 1..Len(s)} \subseteq AsciiDigits

\* The validator accepted the argument: the callback went past the
\* validation branch into requestWithRetry.
Accepted(r) == Gets(r) >= 1
\* The validator rejected the argument: the callback returned the
\* format-error reply.
Rejected(r) == r.pc = "done" /\ r.trace = <<>> /\ r.outcome = "replied"

\* C15: isValidQQ accepts an argument if and only if it is 5 to 13 ASCII
\* digits and nothing else: 5 and 13 digits are accepted, 4 and 14 digits
\* are rejected, and so is a string with a sign, a blank, a letter or a
\* trailing newline.
C15_ValidIff ==
    \A p \in Slots :
        inv[p].cmd = "chafenghao" =>
            /\ Accepted(inv[p]) <=> FiveToThirteenDigits(ToStr(inv[p].qq))
            /\ Rejected(inv[p]) <=> ~FiveToThirteenDigits(ToStr(inv[p].qq))

\* Five digits followed by a newline were rejected.
C15_Witness ==
    \E p \in Slots :
        /\ inv[p].cmd = "chafenghao" /\ Rejected(inv[p])
        /\ ToStr(inv[p].qq) = <<"1", "2", "3", "4", "5", "\n">>

\* ------------------------------------------------------ logging and reply
\* GETs of the invocation that have rejected so far.
FailedGets(r) ==
    Gets(r) - (IF r.pc = "http" \/ r.exit = "returned" THEN 1 ELSE 0)

\* What the invocation handed to the logger, the reply marker left out.
Recorded(r) == SelectSeq(r.events, LAMBDA e : e # "reply")

\* The last n entries of the buffer are the records of r, in order.
InBuffer(r) ==
    LET n == Len(Recorded(r))
    IN  /\ n <= Len(logCache)
        /\ \A i \in 1..n :
              logCache[Len(logCache) - n + i].kind = Recorded(r)[i]

\* C16: every failed attempt and every decision to retry or to stop is
\* handed to the logger, and in the log-buffer variant appended to the
\* buffer, before the reply of the invocation is produced: at every moment
\* the records count one failure per rejected GET, one stop per rethrown
\* error and one record per retry (the "retry" line in part_000, the request
\* line of the retried attempt in index.ts), and the reply comes after all
\* of them and is followed by none.
C16_LogBeforeReply ==
    \A p \in Slots :
        inv[p].cmd = "chafenghao" =>
            /\ Count(inv[p].events, "fail") = FailedGets(inv[p])
            /\ Count(inv[p].events, "end")
                  = (IF inv[p].exit = "rethrew" THEN 1 ELSE 0)
            /\ Count(inv[p].events, "request") = Gets(inv[p])
            /\ config.variant = "B" =>
                  /\ Count(inv[p].events, "retry") = Waits(inv[p])
                  /\ InBuffer(inv[p])
            /\ Count(inv[p].events, "reply")
                  = (IF inv[p].outcome = "replied" THEN 1 ELSE 0)
            /\ inv[p].outcome = "replied" => Last(inv[p].events) = "reply"

\* Two attempts failed, the first was retried, the second stopped the loop,
\* and the reply followed.
C16_Witness ==
    \E p \in Slots :
        /\ config.variant = "B" /\ inv[p].pc = "done"
        /\ inv[p].exit = "rethrew" /\ Waits(inv[p]) = 1
        /\ inv[p].events = <<"request", "fail", "retry", "request", "fail",
                             "end", "error", "reply">>
        /\ InBuffer(inv[p])

\* -------------------------------------------------- validation and retries
\* C17: an invocation whose identifier fails isValidQQ issues no GET and
\* starts no wait, and returns the format-error reply; a GET is only ever
\* issued for an identifier that passed isValidQQ.
C17_ValidationGates ==
    \A p \in Slots :
        inv[p].cmd = "chafenghao" =>
            /\ ~isValidQQ(inv[p].qq) =>
                  /\ inv[p].pc = "done" /\ inv[p].outcome = "replied"
                  /\ inv[p].trace = <<>> /\ inv[p].net.state = "none"
                  /\ Contains(inv[p].reply, "QQ number format error: ")
            /\ (Gets(inv[p]) > 0 \/ inv[p].net.state # "none") =>
                  isValidQQ(inv[p].qq)

\* Fourteen digits were turned down without a GET.
C17_Witness ==
    \E p \in Slots :
        /\ inv[p].cmd = "chafenghao" /\ inv[p].pc = "done"
        /\ ToStr(inv[p].qq) = Chars(14, "1")
        /\ inv[p].trace = <<>> /\ inv[p].net.state = "none"
        /\ Contains(inv[p].reply, "QQ number format error: ")

\* C18: when every GET is eventually answered and every wait eventually
\* ends, every invocation that is waiting for a GET or for a retry delay
\* eventually returns a reply; no invocation issues more than retryTimes + 1
\* GETs or starts more than retryTimes waits.  This holds for each of two
\* invocations interleaved at their suspension points.
C18_Termination ==
    /\ \A p \in FairSlots :
          (inv[p].pc \in {"http", "sleep"})
              ~> (inv[p].pc = "done" /\ inv[p].outcome = "replied")
    /\ [](\A p \in FairSlots :
            /\ Gets(inv[p]) <= config.retryTimes + 1
            /\ Waits(inv[p]) <= config.retryTimes)

\* One invocation has replied after retryTimes + 1 GETs and retryTimes
\* waits while the other, started in between, is still waiting.
C18_Witness ==
    \E p, q \in Slots :
        /\ p # q /\ config.retryTimes = 1
        /\ inv[p].pc = "done" /\ inv[p].outcome = "replied"
        /\ Gets(inv[p]) = 2 /\ Waits(inv[p]) = 1
        /\ inv[q].pc = "http" /\ Gets(inv[q]) = 2

\* C19: the throw after the while loop of requestWithRetry is never
\* reached, whatever retryTimes in 0..5 and whatever the GETs answer: an
\* invocation leaves the loop by returning the body of a resolved GET or by
\* rethrowing, inside the catch block, the error of the GET that just
\* rejected.
C19_NoRetryExhausted ==
    \A p \in Slots :
        /\ inv[p].exit # "exhausted"
        /\ inv[p].error # RetryExhausted
        /\ (inv[p].pc = "done" /\ Gets(inv[p]) > 0) =>
              \/ inv[p].exit = "returned" /\ inv[p].net.state = "resolved"
              \/ /\ inv[p].exit = "rethrew" /\ inv[p].net.state = "rejected"
                 /\ inv[p].error \in Errors

\* With retryTimes = 5 the sixth GET rejected with a retryable error, and
\* the catch block rethrew it.
C19_Witness ==
    \E p \in Slots :
        /\ config.retryTimes = RetryTimesMax
        /\ inv[p].pc = "done" /\ inv[p].exit = "rethrew"
        /\ inv[p].attempt = RetryTimesMax + 1
        /\ isRetryable(config.variant, StatusOf(inv[p].error), inv[p].error)

\* The most entries one invocation appends: three for each of the
\* RetryTimesMax + 1 attempts and one in the catch block of the callback.
MostAppends == 3 * (RetryTimesMax + 1) + 1

\* The last n entries of the buffer are the n entries invocation p appended,
\* in append order.
OwnEntriesKept(p) ==
    LET n == Len(Recorded(inv[p]))
    IN  /\ n <= Len(logCache)
        /\ \A i \in 1..n :
              LET e == logCache[Len(logCache) - n + i]
              IN  /\ e.owner = p
                  /\ e.seq = appended - n + i
                  /\ e.kind = Recorded(inv[p])[i]

\* C20: in the log-buffer variant an invocation that runs with no other
\* invocation interleaved appends at most 19 entries, fewer than the least
\* maxLogCount, so when its reply is returned every entry it appended is
\* still in the buffer, in append order, whatever the buffer held before.
C20_OwnEntriesKept ==
    \A p \in Slots :
        (config.variant = "B" /\ inv[p].cmd = "chafenghao") =>
            /\ Len(Recorded(inv[p])) <= 19
            /\ MostAppends = 19 /\ MostAppends < MaxLogCountMin
            /\ inv[p].pc = "done" => OwnEntriesKept(p)

\* The buffer was full before the dispatch; the invocation appended 19
\* entries and replied.
C20_Witness ==
    \E p \in Slots :
        /\ config.variant = "B" /\ inv[p].pc = "done"
        /\ Len(Recorded(inv[p])) = 19
        /\ appended >= config.maxLogCount + 19
        /\ Len(logCache) = config.maxLogCount
        /\ OwnEntriesKept(p)

====
